---- MODULE Spec2Model ----
(***************************************************************************)
(* Model of src/main.cpp: the LoRaWAN temperature uplink example.          *)
(*                                                                         *)
(* main() configures the LoRaWAN stack, issues the connect request and     *)
(* then dispatches the event queue.  Inside the dispatch loop two kinds of *)
(* callbacks run to completion, one at a time: lora_event_handler, invoked *)
(* for every event the stack reports, and send_message, invoked when one   *)
(* of the timers registered with ev_queue.call_in expires.                 *)
(*                                                                         *)
(* The stack, the radio and the event queue are libraries.  Their results  *)
(* (status codes, events, received bytes) are inputs chosen from small     *)
(* sets.  Of the event queue the model takes the contract of spec.md 4.2:  *)
(* call_in registers a one-shot timer and cancels nothing, callbacks never *)
(* overlap, and after break_dispatch the dispatch loop returns once the    *)
(* running callback has finished, before any other callback runs.          *)
(***************************************************************************)
EXTENDS Integers, Sequences, FiniteSets, TLC

----------------------------------------------------------------------------
(* Program constants *)

TX_INTERVAL == 10000

DUTY_CYCLE_RETRY == 3000

RX_BUFFER_SIZE == 50

(* lorawan_status_t values the program compares against *)
LORAWAN_STATUS_OK == 0

LORAWAN_STATUS_WOULD_BLOCK == -1001

LORAWAN_STATUS_CONNECT_IN_PROGRESS == -1016

(* lorawan_event_t values with a case label in lora_event_handler *)
KnownEvents ==
    { "CONNECTED", "DISCONNECTED", "TX_DONE", "TX_TIMEOUT", "TX_ERROR",
      "TX_CRYPTO_ERROR", "TX_SCHEDULING_ERROR", "RX_DONE", "RX_TIMEOUT",
      "RX_ERROR", "JOIN_FAILURE", "UPLINK_REQUIRED" }

(* an event value without a case label *)
UNKNOWN_EVENT == "UNKNOWN_EVENT"

----------------------------------------------------------------------------
(* Bounds of the model *)

\* most timers pending at once: CONNECTED and UPLINK_REQUIRED are only
\* delivered while fewer are pending
MaxTimers == 3

\* most timers pending at once in the runs whose events are counted
MaxRunTimers == 2

\* most timers pending at once in the runs checked for progress
MaxFairTimers == 1

\* the observer's clock saturates here, and its log of send attempts holds
\* this many
MaxTime == 30000

MaxLog == 2

----------------------------------------------------------------------------
(* Inputs *)

\* status codes the configuration calls may return
StatusCodes == { LORAWAN_STATUS_OK, -1003 }

\* status codes lorawan.connect may return
ConnectResults == StatusCodes \cup { LORAWAN_STATUS_CONNECT_IN_PROGRESS }

\* results of lorawan.send: bytes scheduled, or a negative status
SendResults == { 4, LORAWAN_STATUS_WOULD_BLOCK, -1009 }

\* downlinks lorawan.receive may deliver, and the statuses it may fail with
RxData == { << >>, <<1, 2>>, <<255>>, [i \in 1..(RX_BUFFER_SIZE + 1) |-> 7] }

ReceiveErrors == { LORAWAN_STATUS_WOULD_BLOCK }

Events == KnownEvents \cup {UNKNOWN_EVENT}

----------------------------------------------------------------------------
(* Helpers *)

Min(a, b) == IF a < b THEN a ELSE b

RECURSIVE GCD(_, _)
GCD(a, b) == IF b = 0 THEN a ELSE GCD(b, a % b)

\* the grid on which every timer deadline lies
TimeStep == GCD(TX_INTERVAL, DUTY_CYCLE_RETRY)

RemoveAt(s, i) == SubSeq(s, 1, i - 1) \o SubSeq(s, i + 1, Len(s))

\* a printf of the program: a tag for the format string and its arguments
Line(tag, args) == [tag |-> tag, args |-> args]

----------------------------------------------------------------------------
(* State *)

VARIABLES
    pc,               \* where main() is
    exitCode,         \* the value main returned, once pc = "returned"
    calls,            \* the stack calls main has made, with their results
    timers,           \* ev_queue: the pending call_in timers, in call order
    break_requested,  \* ev_queue: break_dispatch was called
    last,             \* the callback that ran last, if no time has passed since
    run,              \* the sends of each UPLINK_REQUIRED handled in succession
    observed          \* history of the run, kept for the properties

vars == <<pc, exitCode, calls, timers, break_requested, last, run, observed>>

\* no callback has run since the dispatcher last waited
Idle == [src |-> "none", event |-> "none", sends |-> << >>,
         recvs |-> << >>, out |-> << >>]

----------------------------------------------------------------------------
(* ev_queue.call_in(ms, send_message): one more pending timer.  Every timer *)
(* of the program calls send_message, so a timer is its delay and the time *)
(* left until it expires.                                                  *)

call_in(ts, ms) == Append(ts, [delay |-> ms, left |-> ms])

(* static void send_message(): retcode is the result of lorawan.send.  The  *)
(* sensor reading and the payload do not influence the control flow.       *)

send_message_full_interval(ts, retcode) ==
    IF retcode < 0
    THEN [timers |-> call_in(ts, TX_INTERVAL),
          out |-> << IF retcode = LORAWAN_STATUS_WOULD_BLOCK
                     THEN Line("send - Duty cycle violation", << >>)
                     ELSE Line("send() - Error code %d", <<retcode>>) >>]
    ELSE [timers |-> call_in(ts, TX_INTERVAL),
          out |-> << Line("%d bytes scheduled for transmission", <<retcode>>) >>]

send_message_short_error(ts, retcode) ==
    IF retcode < 0
    THEN [timers |-> call_in(ts, DUTY_CYCLE_RETRY),
          out |-> << IF retcode = LORAWAN_STATUS_WOULD_BLOCK
                     THEN Line("send - Duty cycle violation", << >>)
                     ELSE Line("send() - Error code %d", <<retcode>>) >>]
    ELSE [timers |-> call_in(ts, TX_INTERVAL),
          out |-> << Line("%d bytes scheduled for transmission", <<retcode>>) >>]

send_message_drops_on_error(ts, retcode) ==
    IF retcode < 0
    THEN [timers |-> IF retcode = LORAWAN_STATUS_WOULD_BLOCK
                     THEN call_in(ts, DUTY_CYCLE_RETRY)
                     ELSE ts,
          out |-> << IF retcode = LORAWAN_STATUS_WOULD_BLOCK
                     THEN Line("send - Duty cycle violation", << >>)
                     ELSE Line("send() - Error code %d", <<retcode>>) >>]
    ELSE [timers |-> call_in(ts, TX_INTERVAL),
          out |-> << Line("%d bytes scheduled for transmission", <<retcode>>) >>]

send_message(ts, retcode) ==
    IF retcode < 0
    THEN [timers |-> IF retcode = LORAWAN_STATUS_WOULD_BLOCK
                     THEN call_in(ts, DUTY_CYCLE_RETRY)
                     ELSE call_in(ts, TX_INTERVAL),
          out |-> << IF retcode = LORAWAN_STATUS_WOULD_BLOCK
                     THEN Line("send - Duty cycle violation", << >>)
                     ELSE Line("send() - Error code %d", <<retcode>>) >>]
    ELSE [timers |-> call_in(ts, TX_INTERVAL),
          out |-> << Line("%d bytes scheduled for transmission", <<retcode>>) >>]

(* static void receive_message(): retcode is the result of lorawan.receive *)
(* and rx_buffer the 50 bytes after the call.                              *)

receive_message_whole_buffer(retcode, rx_buffer) ==
    IF retcode < 0
    THEN << Line("receive() - Error code %d", <<retcode>>) >>
    ELSE << Line("RX Data (%d bytes): ", <<retcode>>),
            Line("%02x ", [i \in 1..RX_BUFFER_SIZE |-> rx_buffer[i]]) >>

receive_message(retcode, rx_buffer) ==
    IF retcode < 0
    THEN << Line("receive() - Error code %d", <<retcode>>) >>
    ELSE << Line("RX Data (%d bytes): ", <<retcode>>),
            Line("%02x ", [i \in 1..retcode |-> rx_buffer[i]]) >>

\* lorawan.receive(15, rx_buffer, sizeof(rx_buffer), flags) on the buffer
\* uint8_t rx_buffer[50] = { 0 }: the bytes of a downlink are copied to its
\* front and their number is returned, or nothing is copied and a negative
\* status is returned
RxResults ==
    { [retcode |-> Min(Len(d), RX_BUFFER_SIZE), data |-> d] : d \in RxData }
    \cup { [retcode |-> e, data |-> << >>] : e \in ReceiveErrors }

ReceiveBuffer(rx) ==
    [i \in 1..RX_BUFFER_SIZE |-> IF i <= Len(rx.data) THEN rx.data[i] ELSE 0]

(* MBED_ASSERT(expr) halts the program when expr is false (and compiles to *)
(* nothing with NDEBUG).  A string literal is a pointer that is not null.  *)

StringLiteral(text) == [text |-> text, isNull |-> FALSE]

MBED_ASSERT(expr) == [halts |-> expr.isNull]

(* static void lora_event_handler(lorawan_event_t event); sret and rx are  *)
(* what lorawan.send and lorawan.receive return if the handler calls them. *)

Handled(ts, brk, halted, sends, recvs, out) ==
    [timers |-> ts, brk |-> brk, halted |-> halted, sends |-> sends,
     recvs |-> recvs, out |-> out]

case_CONNECTED_immediate(ts) ==
    Handled(call_in(ts, 0), FALSE, FALSE, << >>, << >>,
            << Line("Connection - Successful", << >>) >>)

case_CONNECTED_without_timer(ts) ==
    Handled(ts, FALSE, FALSE, << >>, << >>,
            << Line("Connection - Successful", << >>) >>)

\* case CONNECTED:
case_CONNECTED(ts) ==
    Handled(call_in(ts, TX_INTERVAL), FALSE, FALSE, << >>, << >>,
            << Line("Connection - Successful", << >>) >>)

case_DISCONNECTED_without_break(ts) ==
    Handled(ts, FALSE, FALSE, << >>, << >>,
            << Line("Disconnected Successfully", << >>) >>)

\* case DISCONNECTED: ev_queue.break_dispatch();
case_DISCONNECTED(ts) ==
    Handled(ts, TRUE, FALSE, << >>, << >>,
            << Line("Disconnected Successfully", << >>) >>)

case_TX_DONE_reschedules(ts) ==
    Handled(call_in(ts, TX_INTERVAL), FALSE, FALSE, << >>, << >>,
            << Line("Message Sent to Network Server", << >>) >>)

case_TX_DONE_sends_next(ts) ==
    LET s == send_message(ts, 4)
    IN  Handled(s.timers, FALSE, FALSE, <<4>>, << >>,
                << Line("Message Sent to Network Server", << >>) >> \o s.out)

\* case TX_DONE:
case_TX_DONE(ts) ==
    Handled(ts, FALSE, FALSE, << >>, << >>,
            << Line("Message Sent to Network Server", << >>) >>)

case_TX_failure_with_break(ts) ==
    Handled(ts, TRUE, FALSE, << >>, << >>,
            << Line("Transmission Error - EventCode = %d", << >>) >>)

\* case TX_TIMEOUT: case TX_ERROR: case TX_CRYPTO_ERROR:
\* case TX_SCHEDULING_ERROR:
case_TX_failure(ts) ==
    Handled(ts, FALSE, FALSE, << >>, << >>,
            << Line("Transmission Error - EventCode = %d", << >>) >>)

\* case RX_DONE: receive_message();
case_RX_DONE(ts, rx) ==
    Handled(ts, FALSE, FALSE, << >>, <<rx>>,
            << Line("Received message from Network Server", << >>) >>
            \o receive_message(rx.retcode, ReceiveBuffer(rx)))

\* case RX_TIMEOUT: case RX_ERROR:
case_RX_failure(ts) ==
    Handled(ts, FALSE, FALSE, << >>, << >>,
            << Line("Error in reception - Code = %d", << >>) >>)

case_JOIN_FAILURE_reschedules(ts) ==
    Handled(call_in(ts, TX_INTERVAL), FALSE, FALSE, << >>, << >>,
            << Line("OTAA Failed - Check Keys", << >>) >>)

\* case JOIN_FAILURE:
case_JOIN_FAILURE(ts) ==
    Handled(ts, FALSE, FALSE, << >>, << >>,
            << Line("OTAA Failed - Check Keys", << >>) >>)

case_UPLINK_REQUIRED_deferred(ts, sret) ==
    Handled(call_in(ts, 0), FALSE, FALSE, << >>, << >>,
            << Line("Uplink required by NS", << >>) >>)

\* case UPLINK_REQUIRED: send_message();
case_UPLINK_REQUIRED(ts, sret) ==
    LET s == send_message(ts, sret)
    IN  Handled(s.timers, FALSE, FALSE, <<sret>>, << >>,
                << Line("Uplink required by NS", << >>) >> \o s.out)

\* default: MBED_ASSERT("Unknown Event");
case_default(ts) ==
    Handled(ts, FALSE, MBED_ASSERT(StringLiteral("Unknown Event")).halts,
            << >>, << >>, << >>)

lora_event_handler(event, ts, sret, rx) ==
    CASE event = "CONNECTED" -> case_CONNECTED(ts)
      [] event = "DISCONNECTED" -> case_DISCONNECTED(ts)
      [] event = "TX_DONE" -> case_TX_DONE(ts)
      [] event \in {"TX_TIMEOUT", "TX_ERROR", "TX_CRYPTO_ERROR",
                    "TX_SCHEDULING_ERROR"} -> case_TX_failure(ts)
      [] event = "RX_DONE" -> case_RX_DONE(ts, rx)
      [] event \in {"RX_TIMEOUT", "RX_ERROR"} -> case_RX_failure(ts)
      [] event = "JOIN_FAILURE" -> case_JOIN_FAILURE(ts)
      [] event = "UPLINK_REQUIRED" -> case_UPLINK_REQUIRED(ts, sret)
      [] OTHER -> case_default(ts)

----------------------------------------------------------------------------
(* int main(void) *)

Returned(code) ==
    /\ pc' = "returned"
    /\ exitCode' = code

\* a configuration call whose status main compares with LORAWAN_STATUS_OK
CheckedCall(fn, next) ==
    /\ pc = fn
    /\ \E retcode \in StatusCodes :
          /\ calls' = Append(calls, [fn |-> fn, retcode |-> retcode])
          /\ IF retcode # LORAWAN_STATUS_OK
             THEN Returned(-1)
             ELSE pc' = next /\ UNCHANGED exitCode
    /\ UNCHANGED <<timers, break_requested, last, run, observed>>

\* if (lorawan.initialize(&ev_queue) != LORAWAN_STATUS_OK) return -1;
Initialize == CheckedCall("initialize", "add_app_callbacks")

\* lorawan.add_app_callbacks(&callbacks); the status it returns is dropped
AddAppCallbacks ==
    /\ pc = "add_app_callbacks"
    /\ \E retcode \in StatusCodes :
          calls' = Append(calls, [fn |-> "add_app_callbacks", retcode |-> retcode])
    /\ pc' = "set_confirmed_msg_retries"
    /\ UNCHANGED <<exitCode, timers, break_requested, last, run, observed>>

\* if (lorawan.set_confirmed_msg_retries(3) != LORAWAN_STATUS_OK) return -1;
SetConfirmedMsgRetries ==
    CheckedCall("set_confirmed_msg_retries", "disable_adaptive_datarate")

\* if (lorawan.disable_adaptive_datarate() != LORAWAN_STATUS_OK) return -1;
DisableAdaptiveDatarate == CheckedCall("disable_adaptive_datarate", "connect")

ConnectAccepted_only_ok(retcode) == retcode = LORAWAN_STATUS_OK

\* the test main applies to the result of lorawan.connect
ConnectAccepted(retcode) ==
    retcode = LORAWAN_STATUS_OK \/ retcode = LORAWAN_STATUS_CONNECT_IN_PROGRESS

\* retcode = lorawan.connect(connect_params); then dispatch or return -1
Connect ==
    /\ pc = "connect"
    /\ \E retcode \in ConnectResults :
          /\ calls' = Append(calls, [fn |-> "connect", retcode |-> retcode])
          /\ IF ConnectAccepted(retcode)
             THEN pc' = "dispatch_forever" /\ UNCHANGED exitCode
             ELSE Returned(-1)
    /\ UNCHANGED <<timers, break_requested, last, run, observed>>

----------------------------------------------------------------------------
(* ev_queue.dispatch_forever() *)

Dispatching == pc = "dispatch_forever" /\ ~break_requested

\* The history of the run.  While counting: the CONNECTED and the
\* UPLINK_REQUIRED events handled so far, and whether a JOIN_FAILURE has
\* been handled with no CONNECTED or UPLINK_REQUIRED after it.  While
\* timing: the time since the first CONNECTED was handled, and when, by that
\* time, the first lorawan.send calls were made and what they returned.
Unobserved ==
    [counting |-> FALSE, timing |-> FALSE, connected |-> 0, uplinks |-> 0,
     quiet |-> FALSE, elapsed |-> 0, log |-> << >>]

ObserveCallback(event, h) ==
    LET counted ==
            IF ~observed.counting THEN observed
            ELSE [observed EXCEPT
                    !.connected = IF event = "CONNECTED" THEN @ + 1 ELSE @,
                    !.uplinks = IF event = "UPLINK_REQUIRED" THEN @ + 1 ELSE @,
                    !.quiet = CASE event = "JOIN_FAILURE" -> TRUE
                                [] event \in {"CONNECTED", "UPLINK_REQUIRED"} -> FALSE
                                [] OTHER -> @]
    IN  IF observed.timing /\ h.sends # << >> /\ Len(observed.log) < MaxLog
        THEN [counted EXCEPT
                !.log = Append(@, [at |-> observed.elapsed, retcode |-> h.sends[1]])]
        ELSE counted

ObserveWait ==
    IF observed.timing /\ observed.connected > 0
    THEN [observed EXCEPT !.elapsed = Min(@ + TimeStep, MaxTime)]
    ELSE observed

\* what a finished callback leaves behind
AfterCallback(src, event, h) ==
    /\ timers' = h.timers
    /\ break_requested' = h.brk
    /\ last' = [src |-> src, event |-> event, sends |-> h.sends,
                recvs |-> h.recvs, out |-> h.out]
    /\ run' = IF event = "UPLINK_REQUIRED" THEN Append(run, h.sends) ELSE << >>
    /\ pc' = IF h.halted THEN "halted" ELSE pc
    /\ observed' = ObserveCallback(event, h)
    /\ UNCHANGED <<exitCode, calls>>

\* lorawan.send and lorawan.receive return something only to a handler that
\* calls them
SendInputs(event) ==
    IF event = "UPLINK_REQUIRED" THEN SendResults ELSE {LORAWAN_STATUS_OK}

RxInputs(event) ==
    IF event = "RX_DONE" THEN RxResults
    ELSE {[retcode |-> LORAWAN_STATUS_OK, data |-> << >>]}

\* the stack reports this event: lora_event_handler runs to completion
DeliverEvent(event, limit) ==
    \E sret \in SendInputs(event), rx \in RxInputs(event) :
       /\ event \in {"CONNECTED", "UPLINK_REQUIRED"} => Len(timers) < limit
       /\ AfterCallback("event", event,
                        lora_event_handler(event, timers, sret, rx))

\* the stack reports an event
DispatchEvent ==
    /\ Dispatching
    /\ \E event \in Events : DeliverEvent(event, MaxTimers)

\* a timer has expired: it leaves the queue and send_message runs
DispatchTimer ==
    /\ Dispatching
    /\ \E i \in 1..Len(timers), sret \in SendResults :
          /\ timers[i].left = 0
          /\ LET s == send_message(RemoveAt(timers, i), sret)
             IN  AfterCallback("timer", "none",
                               Handled(s.timers, FALSE, FALSE, <<sret>>, << >>, s.out))

\* nothing is due: the dispatcher waits and time passes
Wait ==
    /\ Dispatching
    /\ timers # << >>
    /\ \A i \in 1..Len(timers) : timers[i].left >= TimeStep
    /\ timers' = [i \in 1..Len(timers) |->
                    [timers[i] EXCEPT !.left = @ - TimeStep]]
    /\ last' = Idle
    /\ run' = << >>
    /\ observed' = ObserveWait
    /\ UNCHANGED <<pc, exitCode, calls, break_requested>>

\* break_dispatch was called: dispatch_forever returns and main ends
DispatchReturn ==
    /\ pc = "dispatch_forever"
    /\ break_requested
    /\ Returned(0)
    /\ UNCHANGED <<calls, timers, break_requested, last, run, observed>>

----------------------------------------------------------------------------

Init ==
    /\ pc = "initialize"
    /\ exitCode = 0
    /\ calls = << >>
    /\ timers = << >>
    /\ break_requested = FALSE
    /\ last = Idle
    /\ run = << >>
    /\ observed = Unobserved

Next ==
    \/ Initialize
    \/ AddAppCallbacks
    \/ SetConfirmedMsgRetries
    \/ DisableAdaptiveDatarate
    \/ Connect
    \/ DispatchEvent
    \/ DispatchTimer
    \/ Wait
    \/ DispatchReturn

Spec == Init /\ [][Next]_vars

(* The run loop on its own: main has made every startup call with success  *)
(* and has just entered dispatch_forever; the events handled are counted.  *)

StartupDone ==
    << [fn |-> "initialize", retcode |-> LORAWAN_STATUS_OK],
       [fn |-> "add_app_callbacks", retcode |-> LORAWAN_STATUS_OK],
       [fn |-> "set_confirmed_msg_retries", retcode |-> LORAWAN_STATUS_OK],
       [fn |-> "disable_adaptive_datarate", retcode |-> LORAWAN_STATUS_OK],
       [fn |-> "connect", retcode |-> LORAWAN_STATUS_CONNECT_IN_PROGRESS] >>

InitRun ==
    /\ pc = "dispatch_forever"
    /\ exitCode = 0
    /\ calls = StartupDone
    /\ timers = << >>
    /\ break_requested = FALSE
    /\ last = Idle
    /\ run = << >>
    /\ observed = [Unobserved EXCEPT !.counting = TRUE]

DispatchEventRun ==
    /\ Dispatching
    /\ \E event \in Events : DeliverEvent(event, MaxRunTimers)

NextRun ==
    \/ DispatchEventRun
    \/ DispatchTimer
    \/ Wait
    \/ DispatchReturn

SpecRun == InitRun /\ [][NextRun]_vars

(* The run loop with the join succeeding and nothing else happening: the   *)
(* only event is one CONNECTED, and the time since it is measured.         *)

InitQuiet ==
    /\ pc = "dispatch_forever"
    /\ exitCode = 0
    /\ calls = StartupDone
    /\ timers = << >>
    /\ break_requested = FALSE
    /\ last = Idle
    /\ run = << >>
    /\ observed = [Unobserved EXCEPT !.counting = TRUE, !.timing = TRUE]

QuietConnected ==
    /\ Dispatching
    /\ observed.connected = 0
    /\ DeliverEvent("CONNECTED", MaxRunTimers)

NextQuiet ==
    \/ QuietConnected
    \/ DispatchTimer
    \/ Wait

SpecQuiet == InitQuiet /\ [][NextQuiet]_vars

(* The counted run loop with a dispatcher that does not stall: a timer     *)
(* that is due is dispatched, and otherwise the wait ends and time passes. *)

DispatchEventFair ==
    /\ Dispatching
    /\ \E event \in Events : DeliverEvent(event, MaxFairTimers)

NextFair ==
    \/ DispatchEventFair
    \/ DispatchTimer
    \/ Wait
    \/ DispatchReturn

SpecFair ==
    InitRun /\ [][NextFair]_vars /\ WF_vars(Wait) /\ WF_vars(DispatchTimer)

----------------------------------------------------------------------------
(* Properties *)

Fresh(ms) == [delay |-> ms, left |-> ms]

\* the step is a callback that called lorawan.send once, with this result
SendStep(retcode) == Dispatching /\ last'.sends = <<retcode>>

\* the step added exactly one timer, of this delay, and cancelled none: the
\* timers pending before it are all still pending, but for the expired timer
\* when the callback was that timer's
AddsOneTimer(ms) ==
    IF last'.src = "timer"
    THEN \E i \in 1..Len(timers) :
            /\ timers[i].left = 0
            /\ timers' = Append(RemoveAt(timers, i), Fresh(ms))
    ELSE timers' = Append(timers, Fresh(ms))

\* main is, or has been, inside ev_queue.dispatch_forever()
EnteredDispatch ==
    \/ pc \in {"dispatch_forever", "halted"}
    \/ pc = "returned" /\ exitCode = 0

\* C1 (as claimed): at most one send_message timer is pending at any time.
C1_AtMostOnePendingSend == Len(timers) <= 1

\* C2 (as claimed): after a send_message whose lorawan.send returned a
\* non-negative value, the one timer it scheduled (TX_INTERVAL) is the only
\* pending timer: none that was pending before remains.
C2_SuccessLeavesOnlyNewTimer ==
    (last.sends # << >> /\ last.sends[1] >= 0)
        => timers = << Fresh(TX_INTERVAL) >>

\* C3: a send_message whose lorawan.send returned LORAWAN_STATUS_WOULD_BLOCK
\* adds exactly one timer; its delay is 3000 ms, which is not TX_INTERVAL
\* but strictly less.
C3_WouldBlockBackoff ==
    [][SendStep(LORAWAN_STATUS_WOULD_BLOCK)
          => /\ AddsOneTimer(3000)
             /\ timers'[Len(timers')].delay < TX_INTERVAL
             /\ timers'[Len(timers')].delay # 10000]_vars

C3_Witness ==
    /\ last.src = "timer"
    /\ last.sends = <<LORAWAN_STATUS_WOULD_BLOCK>>
    /\ timers[Len(timers)] = Fresh(3000)

\* C4: a send_message whose lorawan.send returned a negative code other than
\* LORAWAN_STATUS_WOULD_BLOCK prints the code, adds one timer of TX_INTERVAL
\* (10000 ms) and leaves the dispatch loop running.
C4_OtherErrorFullInterval ==
    [][\A retcode \in SendResults \ {LORAWAN_STATUS_WOULD_BLOCK} :
          (retcode < 0 /\ SendStep(retcode))
             => /\ AddsOneTimer(10000)
                /\ last'.out[Len(last'.out)]
                       = Line("send() - Error code %d", <<retcode>>)
                /\ pc' = "dispatch_forever"
                /\ ~break_requested']_vars

C4_Witness ==
    /\ last.sends # << >>
    /\ last.sends[1] < 0
    /\ last.sends[1] # LORAWAN_STATUS_WOULD_BLOCK
    /\ timers[Len(timers)] = Fresh(TX_INTERVAL)
    /\ Dispatching

\* C5: handling DISCONNECTED requests the break; the only step after that is
\* the return of dispatch_forever, which runs no callback and fires no
\* timer; and once main has returned nothing happens at all.
C5_DisconnectedStopsDispatch ==
    [][/\ (Dispatching /\ last'.event = "DISCONNECTED")
             => (break_requested' /\ timers' = timers)
       /\ (pc = "dispatch_forever" /\ break_requested)
             => (pc' = "returned" /\ timers' = timers /\ last' = last)
       /\ pc # "returned"]_vars

C5_Witness ==
    /\ pc = "returned"
    /\ last.event = "DISCONNECTED"
    /\ timers # << >>

\* C6: the dispatch loop is left, or the break requested, only by a step
\* that handles DISCONNECTED or that returns after one.
C6_OnlyDisconnectedStops ==
    [][(pc = "dispatch_forever"
           /\ (pc' # "dispatch_forever" \/ break_requested' # break_requested))
          => (last'.src = "event" /\ last'.event = "DISCONNECTED")]_vars

C6_Witness ==
    /\ Dispatching
    /\ timers # << >>
    /\ last.src = "event"
    /\ last.event = "TX_SCHEDULING_ERROR"

\* C7 (as claimed): a failing initialize, add_app_callbacks,
\* set_confirmed_msg_retries or disable_adaptive_datarate is the last call
\* main makes, and main returns non-zero.
C7_StartupFailureAborts ==
    \A i \in 1..Len(calls) :
        (calls[i].fn # "connect" /\ calls[i].retcode # LORAWAN_STATUS_OK)
            => (i = Len(calls) /\ pc = "returned" /\ exitCode # 0)

\* C8: once connect has been called, main is or was in dispatch_forever if
\* connect returned LORAWAN_STATUS_OK or LORAWAN_STATUS_CONNECT_IN_PROGRESS;
\* otherwise it has returned non-zero, never dispatched, and no timer was
\* scheduled and no callback ran.  Dispatch is not entered without connect.
C8_DispatchIffConnectAccepted ==
    /\ \A i \in 1..Len(calls) :
          calls[i].fn = "connect"
             => IF calls[i].retcode \in {LORAWAN_STATUS_OK,
                                         LORAWAN_STATUS_CONNECT_IN_PROGRESS}
                THEN EnteredDispatch
                ELSE /\ pc = "returned"
                     /\ exitCode # 0
                     /\ timers = << >>
                     /\ last = Idle
    /\ EnteredDispatch
          => (calls # << >> /\ calls[Len(calls)].fn = "connect")

C8_Witness ==
    /\ calls # << >>
    /\ calls[Len(calls)].fn = "connect"
    /\ calls[Len(calls)].retcode = LORAWAN_STATUS_CONNECT_IN_PROGRESS
    /\ timers # << >>

\* C9 (as claimed): after an event without a case label has been handled
\* the program has halted.
C9_UnknownEventHalts ==
    (last.src = "event" /\ last.event = UNKNOWN_EVENT) => pc = "halted"

\* C10: while n UPLINK_REQUIRED events have been handled in immediate
\* succession, each handler invocation made exactly one lorawan.send call
\* (n in all), and the last n timers are the ones these sends scheduled, in
\* order: 3000 ms after LORAWAN_STATUS_WOULD_BLOCK, 10000 ms otherwise.
C10_UplinkRequiredSendsEach ==
    /\ (last.src = "event" /\ last.event = "UPLINK_REQUIRED") <=> run # << >>
    /\ Len(run) <= Len(timers)
    /\ \A k \in 1..Len(run) :
          /\ Len(run[k]) = 1
          /\ timers[Len(timers) - Len(run) + k]
                = Fresh(IF run[k][1] = LORAWAN_STATUS_WOULD_BLOCK
                        THEN 3000 ELSE 10000)

C10_Witness ==
    /\ Len(run) = 3
    /\ run[1] = <<LORAWAN_STATUS_WOULD_BLOCK>>
    /\ run[2] = <<4>>
    /\ run[3] = <<LORAWAN_STATUS_WOULD_BLOCK>>

\* the step is lora_event_handler handling this event
EventStep(event) ==
    Dispatching /\ last'.src = "event" /\ last'.event = event

\* C11: in a run whose only event is one CONNECTED, handling it sends nothing
\* and leaves one timer of TX_INTERVAL; no send is made before 10000 ms have
\* passed since, the first send is made at 10000 ms, and if it returned a
\* non-negative value the second is made at 20000 ms.
C11_FirstSendsAfterConnect ==
    /\ last.event = "CONNECTED"
          => (last.sends = << >> /\ timers = << Fresh(TX_INTERVAL) >>
              /\ observed.log = << >>)
    /\ (observed.connected = 0 \/ observed.elapsed < 10000)
          => observed.log = << >>
    /\ Len(observed.log) >= 1 => observed.log[1].at = 10000
    /\ observed.elapsed > 10000 => Len(observed.log) >= 1
    /\ (Len(observed.log) >= 1 /\ observed.log[1].retcode >= 0)
          => /\ Len(observed.log) >= 2 => observed.log[2].at = 20000
             /\ observed.elapsed < 20000 => Len(observed.log) = 1
             /\ observed.elapsed > 20000 => Len(observed.log) >= 2

C11_Witness ==
    /\ Len(observed.log) >= 2
    /\ observed.log[1] = [at |-> 10000, retcode |-> 4]
    /\ observed.log[2].at = 20000

\* what handling JOIN_FAILURE does: it prints one line and nothing else
JoinFailureOnlyReports ==
    EventStep("JOIN_FAILURE")
       => /\ last'.out = << Line("OTAA Failed - Check Keys", << >>) >>
          /\ last'.sends = << >>
          /\ last'.recvs = << >>
          /\ timers' = timers
          /\ calls' = calls
          /\ pc' = pc
          /\ ~break_requested'

\* C12 (as claimed): handling JOIN_FAILURE only reports, and once a
\* JOIN_FAILURE has been handled, with no CONNECTED or UPLINK_REQUIRED
\* handled after it, no callback calls lorawan.send.
C12_NoSendAfterJoinFailure ==
    /\ [][JoinFailureOnlyReports]_vars
    /\ [](observed.quiet => last.sends = << >>)

\* C12 (amended): handling JOIN_FAILURE only reports, and once a
\* JOIN_FAILURE has been handled in a run that handled no CONNECTED and no
\* UPLINK_REQUIRED, before it or after it, no timer is pending and no
\* callback calls lorawan.send.
C12_NoSendAfterFirstJoinFailure ==
    /\ [][JoinFailureOnlyReports]_vars
    /\ []((observed.quiet /\ observed.connected = 0 /\ observed.uplinks = 0)
             => (timers = << >> /\ last.sends = << >>))

C12_Witness ==
    /\ observed.quiet
    /\ observed.connected = 0
    /\ observed.uplinks = 0
    /\ last.event = "TX_DONE"
    /\ Dispatching

\* C13: handling RX_DONE calls lorawan.receive once and changes no timer.  A
\* result n >= 0 is at most 50 and the report shows n and exactly the first
\* n bytes of the buffer; a negative result is reported as an error, with
\* no second call.
C13_ReceiveReportsFirstBytes ==
    [][EventStep("RX_DONE")
          => /\ Len(last'.recvs) = 1
             /\ timers' = timers
             /\ last'.sends = << >>
             /\ LET rx == last'.recvs[1]
                    n == rx.retcode
                IN  IF n >= 0
                    THEN /\ n <= 50
                         /\ n <= Len(rx.data)
                         /\ last'.out =
                              << Line("Received message from Network Server", << >>),
                                 Line("RX Data (%d bytes): ", <<n>>),
                                 Line("%02x ", SubSeq(rx.data, 1, n)) >>
                    ELSE last'.out =
                              << Line("Received message from Network Server", << >>),
                                 Line("receive() - Error code %d", <<n>>) >>]_vars

C13_Witness ==
    /\ last.event = "RX_DONE"
    /\ last.recvs[1].retcode = 2
    /\ last.out[3].args = <<1, 2>>
    /\ timers # << >>

\* C14: under a dispatcher that does not stall, once a transmission-failure
\* event has been handled in a run that has handled CONNECTED, a callback
\* calls lorawan.send later on, unless DISCONNECTED stops the loop first.
C14_SendAfterTxFailure ==
    (/\ last.event \in {"TX_TIMEOUT", "TX_ERROR", "TX_CRYPTO_ERROR",
                        "TX_SCHEDULING_ERROR"}
     /\ observed.connected > 0)
        ~> (last.sends # << >> \/ ~Dispatching)

C14_Witness ==
    /\ last.event = "TX_CRYPTO_ERROR"
    /\ observed.connected > 0
    /\ Dispatching
    /\ \A i \in 1..Len(timers) : timers[i].left > 0

\* C15: the number of pending timers is the number of CONNECTED events plus
\* the number of UPLINK_REQUIRED events handled so far; it is at least one
\* once CONNECTED has been handled, and no step makes it smaller.
C15_TimersCountEvents ==
    /\ [](/\ Len(timers) = observed.connected + observed.uplinks
          /\ observed.connected > 0 => Len(timers) >= 1)
    /\ [][Len(timers') >= Len(timers)]_vars

C15_Witness ==
    /\ observed.connected = 1
    /\ observed.uplinks = 1
    /\ Len(timers) = 2
    /\ last.src = "timer"
    /\ last.sends[1] < 0

\* C16: handling TX_DONE, TX_TIMEOUT, TX_ERROR, TX_CRYPTO_ERROR,
\* TX_SCHEDULING_ERROR, RX_TIMEOUT or RX_ERROR changes no timer, does not
\* stop the loop and calls neither lorawan.send nor lorawan.receive.
C16_ReportOnlyEvents ==
    [][\A event \in {"TX_DONE", "TX_TIMEOUT", "TX_ERROR", "TX_CRYPTO_ERROR",
                     "TX_SCHEDULING_ERROR", "RX_TIMEOUT", "RX_ERROR"} :
          EventStep(event)
             => /\ timers' = timers
                /\ pc' = pc
                /\ break_requested' = break_requested
                /\ last'.sends = << >>
                /\ last'.recvs = << >>]_vars

C16_Witness ==
    /\ last.event = "RX_ERROR"
    /\ Len(timers) = 2
    /\ Dispatching

\* C17: a callback that calls lorawan.send is an expired timer or the
\* handler of UPLINK_REQUIRED, and it calls it once; a timer is pending only
\* after a CONNECTED or an UPLINK_REQUIRED; so while no UPLINK_REQUIRED has
\* been handled, no send is made before CONNECTED has been handled.
C17_SendsOnlyFromSendMessage ==
    /\ last.sends # << >>
          => /\ Len(last.sends) = 1
             /\ last.src = "timer" \/ last.event = "UPLINK_REQUIRED"
             /\ observed.connected > 0 \/ observed.uplinks > 0
    /\ (observed.connected = 0 /\ observed.uplinks = 0)
          => (timers = << >> /\ last.sends = << >>)
    /\ (last.src = "timer" /\ observed.connected = 0) => observed.uplinks > 0

C17_Witness ==
    /\ observed.connected = 0
    /\ observed.uplinks = 1
    /\ last.src = "timer"
    /\ last.sends = <<4>>

====
